---- MODULE Spec2Model ----
(***************************************************************************)
(* Model of the MCP3208 driver (src/src/Mcp3208.cpp).                      *)
(*                                                                         *)
(* The driver is single threaded and blocking.  A public method is entered *)
(* by a Call action, runs through the steps of its body (one action per    *)
(* statement that touches the bus, the select line, the clock or a         *)
(* counter) and ends in pc = "done", from where Return gives control back  *)
(* to the caller.  Nested calls (getSplDelay -> calibrate ->               *)
(* testSplSpeed(ch, 256) -> read -> transfer) have one frame each.         *)
(*                                                                         *)
(* The serial bus, the select line and the microsecond clock are the       *)
(* environment: a byte exchange returns any byte of a small sample set, a  *)
(* clock reading returns any value not earlier than the previous one.      *)
(*                                                                         *)
(* uint32_t values are pairs <<hi, lo>> of 16-bit limbs, because the       *)
(* arithmetic of the code is modulo 2^32 and the model checker's integers  *)
(* stop at 2^31 - 1.                                                       *)
(***************************************************************************)
EXTENDS Integers, Sequences, FiniteSets, TLC

(***************************************************************************)
(* Bounds of the model.                                                    *)
(***************************************************************************)
\* largest sample count num passed to a multi-sample read
MaxNum == 2
\* gating transfers with a false predicate that the event log records
MaxGate == 3

\* channel selectors passed by the caller (4-bit selector, bits 6..9)
Channels == {5, 13}
Nums == 0..MaxNum
\* every 4-bit channel selector
AllChannels == 0..15
\* target sampling frequencies in Hz (period 1 ms and 1 us)
Freqs == {1000, 1000000}
\* target frequencies from 1 Hz to 1 MHz, with periods that are and are not
\* whole numbers of nanoseconds
WideFreqs == {1, 2, 3, 6, 7, 10, 30, 31, 100, 1000, 20000, 100000, 1000000}
\* caller supplied predicates
Preds == {"eq42", "never"}
\* response bytes of the first, second and third exchange of a transfer
Resp1 == {0, 255}
Resp2 == {0, 250}
Resp3 == {42, 60}
\* raw codes and voltages passed to the conversions
RawSamples == {0, 1, 4095}
ValSamples == {0, 5000}
\* microsecond counter at the first reading, and the interval between the
\* first and the second reading of one measurement
ClockStarts == {<<65535, 65000>>}
ElapsedUs == {0, 2560, 768000}

(***************************************************************************)
(* Program constants.                                                      *)
(***************************************************************************)
kCalSamples == 256
kDefaultSamples == 64
\* resolution of the converter, 2^12 (MCP3208::kRes of Mcp3208.h)
kRes == 4096

\* every raw code of the converter, and reference voltages in millivolts
\* from the smallest that keeps the codes apart to the end of the 16-bit range
Raws == 0..(kRes - 1)
Vrefs == {4095, 4096, 5000, 65535}

(***************************************************************************)
(* Bit operations on naturals.                                             *)
(***************************************************************************)
RECURSIVE BitAnd(_, _)
BitAnd(a, b) ==
  IF a = 0 \/ b = 0 THEN 0
  ELSE (IF a % 2 = 1 /\ b % 2 = 1 THEN 1 ELSE 0) + 2 * BitAnd(a \div 2, b \div 2)

RECURSIVE BitOr(_, _)
BitOr(a, b) ==
  IF a = 0 THEN b
  ELSE IF b = 0 THEN a
  ELSE (IF a % 2 = 1 \/ b % 2 = 1 THEN 1 ELSE 0) + 2 * BitOr(a \div 2, b \div 2)

(***************************************************************************)
(* uint32_t arithmetic on <<hi, lo>> limb pairs.                           *)
(***************************************************************************)
U32(n) == <<n \div 65536, n % 65536>>

Zero32 == <<0, 0>>

\* the value of a pair below 2^31
Val32(a) == a[1] * 65536 + a[2]

Add32(a, b) ==
  LET lo == a[2] + b[2]
      hi == a[1] + b[1] + (lo \div 65536)
  IN  <<hi % 65536, lo % 65536>>

Sub32(a, b) ==
  LET lo == a[2] - b[2]
      hi == a[1] - b[1] - (IF lo < 0 THEN 1 ELSE 0)
  IN  <<hi % 65536, lo % 65536>>

\* a * k modulo 2^32, for a multiplier k below 2^15
Mul32(a, k) ==
  LET p == a[2] * k
  IN  <<(a[1] * k + (p \div 65536)) % 65536, p % 65536>>

\* a / d (unsigned), for a divisor d in 1 .. 2^15
Div32(a, d) == <<a[1] \div d, ((a[1] % d) * 65536 + a[2]) \div d>>

\* conversion of a uint32_t to int16_t: the low 16 bits, two's complement
ToInt16(a) == IF a[2] >= 32768 THEN a[2] - 65536 ELSE a[2]

(***************************************************************************)
(* SpiData: a 16-bit value overlaid with its two bytes.                    *)
(***************************************************************************)
HiByte(v) == v \div 256
LoByte(v) == v % 256
SpiValue(hi, lo) == hi * 256 + lo

(***************************************************************************)
(* Pure functions of the driver.                                           *)
(***************************************************************************)
\* div_round(n, d) with n a uint32_t and d a uint16_t: ((n) + ((d) >> 2)) / (d)
div_round(n, d) == Div32(Add32(n, U32(d \div 4)), d)

\* mutant: the selector is shifted by 5 bits
createCmd_Shift5(c) == BitOr(1024, c * 32) % 65536

\* createCmd: 0x0400 | (ch << 6), cast to uint16_t
createCmd(c) == BitOr(1024, c * 64) % 65536

\* div_round(1000000000, splFreq): for splFreq < 2^31 the sum stays below
\* 2^31, so no limb arithmetic is needed
SplTime(f) == (1000000000 + (f \div 4)) \div f

\* the last two statements of getSplDelay
SplDelay(t, speed) ==
  LET d16 == ToInt16(Div32(Sub32(U32(t), speed), 1000))
  IN  IF d16 < 0 THEN 0 ELSE d16

\* The conversions multiply two uint16_t values as uint32_t, which cannot
\* wrap (65535 * 65535 < 2^32), and return the quotient as uint16_t.  The
\* model's integers hold the products of the arguments it passes: raw codes
\* up to 4095 and the factors 4095 and 1000 keep them below 2^31.
\* toAnalog: (static_cast<uint32_t>(raw) * mVref) / (kRes - 1)
toAnalog(r, vref) == ((r * vref) \div (kRes - 1)) % 65536

\* mutant: the cast is forgotten and the product is formed in 16 bits
toDigital_Narrow(v, vref) == (((v * (kRes - 1)) % 65536) \div vref) % 65536

\* toDigital: (static_cast<uint32_t>(val) * (kRes - 1)) / mVref
toDigital(v, vref) == ((v * (kRes - 1)) \div vref) % 65536

\* getAnalogRes: (static_cast<uint32_t>(mVref) * 1000) / (kRes - 1)
getAnalogRes(vref) == ((vref * 1000) \div (kRes - 1)) % 65536

\* the caller's predicate applied to a sample
Holds(p, v) == IF p = "eq42" THEN v = 42 ELSE FALSE

VARIABLES
  \* the device instance
  mVref, mCsPin, mSplSpeed,
  \* the select line
  cs,
  \* frame of the public method in progress
  op, pc, ch, num, splFreq, pred, raw, val, cmd, i, delay, t1, data, ret,
  \* frame of getSplDelay
  gpc, splTime,
  \* frame of calibrate
  calpc,
  \* frame of testSplSpeed(ch, num)
  bpc, bnum, bi, bt1, bt2, bret,
  \* frame of transfer
  xpc, xcmd, adcHi, adcLo,
  \* history: events of the transfer in progress, and the responses of its
  \* exchanges (kept for the transfers of the public method's own frame; the
  \* samples of a measurement burst are discarded unseen)
  tlog, resp,
  \* history: events of the public method in progress
  log, gateOver, csTouched, speed0,
  \* history: transfers of the measurement burst, its result
  bXfer, measured,
  \* history: a calibration burst started by getSplDelay has completed
  \* since construction or the last explicit calibrate
  lazyDone

devVars == <<mVref, mCsPin, mSplSpeed>>
topVars == <<op, pc, ch, num, splFreq, pred, raw, val, cmd, i, delay, t1,
            data, ret>>
gsdVars == <<gpc, splTime>>
burstVars == <<bpc, bnum, bi, bt1, bt2, bret>>
xferVars == <<xpc, xcmd, adcHi, adcLo>>
xferHist == <<tlog, resp>>
opHist == <<log, gateOver, csTouched, speed0>>
calHist == <<lazyDone>>
vars == <<devVars, cs, topVars, gsdVars, calpc, burstVars, xferVars,
          xferHist, opHist, bXfer, measured, calHist>>

\* marker of an array slot or local that has not been written
Unset == 0 - 1

\* The constructor stores its arguments and clears the baseline; it does not
\* write the select line, which is at the level the caller's setup left it.
\* A device whose baseline is speed is one that calibrate has left so.
Constructed(vref, speed) ==
  /\ mVref = vref /\ mCsPin = 10 /\ mSplSpeed = speed
  /\ cs \in {"HIGH", "LOW"}
  /\ op = "idle" /\ pc = "idle" /\ ch = 0 /\ num = 0 /\ splFreq = 0
  /\ pred = "none" /\ raw = 0 /\ val = 0
  /\ cmd = 0 /\ i = 0 /\ delay = 0 /\ t1 = Zero32
  /\ data = <<>> /\ ret = Zero32
  /\ gpc = "idle" /\ splTime = 0
  /\ calpc = "idle"
  /\ bpc = "idle" /\ bnum = 0 /\ bi = 0 /\ bt1 = Zero32 /\ bret = Zero32
  /\ bt2 = Zero32
  /\ xpc = "idle" /\ xcmd = 0 /\ adcHi = Unset /\ adcLo = Unset
  /\ tlog = <<>> /\ resp = <<>>
  /\ log = <<>> /\ gateOver = FALSE /\ csTouched = FALSE /\ speed0 = Zero32
  /\ bXfer = 0 /\ measured = Zero32
  /\ lazyDone = FALSE

Init == Constructed(5000, Zero32)

(***************************************************************************)
(* transfer(cmd)                                                           *)
(***************************************************************************)
\* a call of transfer(c): the frame is set up, nothing has happened yet
XferCall(c) ==
  /\ xpc' = "csLow" /\ xcmd' = c /\ adcHi' = Unset /\ adcLo' = Unset
  /\ tlog' = <<>> /\ resp' = <<>>

\* the frame after the caller has taken the return value
XferIdle ==
  /\ xpc' = "idle" /\ xcmd' = 0 /\ adcHi' = Unset /\ adcLo' = Unset
  /\ tlog' = <<>> /\ resp' = <<>>

\* adc.value, the return value of transfer
XferValue == SpiValue(adcHi, adcLo)

\* the transfer in progress was called by read() inside testSplSpeed(ch, num)
InBurst == bpc = "xfer"

\* history of the response r of an exchange
RespLog(r) == resp' = IF InBurst THEN resp ELSE Append(resp, r)

\* digitalWrite(mCsPin, LOW)
XferCsLow ==
  /\ xpc = "csLow"
  /\ cs' = "LOW" /\ csTouched' = TRUE
  /\ tlog' = Append(tlog, <<"cs", 0>>)
  /\ xpc' = "b1"
  /\ UNCHANGED <<devVars, topVars, gsdVars, calpc, burstVars, xcmd, adcHi,
                 adcLo, resp, log, gateOver, speed0, bXfer, measured, calHist>>

\* mutant: the two command bytes are sent in the wrong order
XferByte1Out_Swapped == LoByte(xcmd)

\* the byte sent by the first exchange
XferByte1Out == HiByte(xcmd)

\* mSpi->transfer(cmd.hiByte): the response is discarded
XferByte1 ==
  /\ xpc = "b1"
  /\ \E r \in Resp1 : RespLog(r)
  /\ tlog' = Append(tlog, <<"x", XferByte1Out>>)
  /\ xpc' = "b2"
  /\ UNCHANGED <<devVars, cs, topVars, gsdVars, calpc, burstVars, xcmd, adcHi,
                 adcLo, opHist, bXfer, measured, calHist>>

\* mutant: the mask is forgotten
XferMask_None(r) == r

\* what the second exchange keeps of its response
XferMask(r) == BitAnd(r, 15)

\* adc.hiByte = mSpi->transfer(cmd.loByte) & 0x0F
XferByte2 ==
  /\ xpc = "b2"
  /\ \E r \in Resp2 : RespLog(r) /\ adcHi' = XferMask(r)
  /\ tlog' = Append(tlog, <<"x", LoByte(xcmd)>>)
  /\ xpc' = "b3"
  /\ UNCHANGED <<devVars, cs, topVars, gsdVars, calpc, burstVars, xcmd,
                 adcLo, opHist, bXfer, measured, calHist>>

\* adc.loByte = mSpi->transfer(0x00)
XferByte3 ==
  /\ xpc = "b3"
  /\ \E r \in Resp3 : RespLog(r) /\ adcLo' = r
  /\ tlog' = Append(tlog, <<"x", 0>>)
  /\ xpc' = "csHigh"
  /\ UNCHANGED <<devVars, cs, topVars, gsdVars, calpc, burstVars, xcmd,
                 adcHi, opHist, bXfer, measured, calHist>>

\* mutant: the transfer ends without releasing the line
CsReleased_Low == "LOW"

\* the level the transfer leaves the line at
CsReleased == "HIGH"

\* digitalWrite(mCsPin, HIGH); the transfer is complete and about to return
XferCsHigh ==
  /\ xpc = "csHigh"
  /\ cs' = CsReleased /\ csTouched' = TRUE
  /\ tlog' = Append(tlog, <<"cs", 1>>)
  /\ xpc' = "ret"
  /\ IF InBurst
       THEN bXfer' = bXfer + 1 /\ log' = log
       ELSE bXfer' = bXfer /\ log' = Append(log, <<"T", XferValue>>)
  /\ UNCHANGED <<devVars, topVars, gsdVars, calpc, burstVars, xcmd, adcHi,
                 adcLo, resp, gateOver, speed0, measured, calHist>>

(***************************************************************************)
(* Entering and leaving a public method.                                   *)
(***************************************************************************)
\* the caller's frame at entry: arguments, locals not yet written; the
\* caller's array has the n slots asked for and one more behind them
Enter(o, p, c, n, f, q) ==
  /\ op = "idle"
  /\ op' = o /\ pc' = p /\ ch' = c /\ num' = n /\ splFreq' = f /\ pred' = q
  /\ raw' = 0 /\ val' = 0
  /\ i' = 0 /\ delay' = 0 /\ t1' = Zero32 /\ ret' = Zero32
  /\ data' = [k \in 1..(n + 1) |-> Unset]
  /\ log' = <<>> /\ gateOver' = FALSE /\ csTouched' = FALSE
  /\ speed0' = mSplSpeed
  /\ bXfer' = 0 /\ measured' = Zero32

\* the method has returned and the caller has taken its result
Return ==
  /\ pc = "done"
  /\ op' = "idle" /\ pc' = "idle" /\ ch' = 0 /\ num' = 0 /\ splFreq' = 0
  /\ pred' = "none" /\ raw' = 0 /\ val' = 0
  /\ cmd' = 0 /\ i' = 0 /\ delay' = 0 /\ t1' = Zero32
  /\ data' = <<>> /\ ret' = Zero32
  /\ log' = <<>> /\ gateOver' = FALSE /\ csTouched' = FALSE
  /\ speed0' = Zero32
  /\ bXfer' = 0 /\ measured' = Zero32
  /\ XferIdle
  /\ UNCHANGED <<devVars, cs, gsdVars, calpc, burstVars, calHist>>

(***************************************************************************)
(* read(ch)                                                                *)
(***************************************************************************)
\* read(c) for a selector c of the set C
CallReadOn(C) ==
  \E c \in C :
    /\ Enter("read", "xfer", c, 0, 0, "none")
    /\ cmd' = createCmd(c)
    /\ XferCall(createCmd(c))
    /\ UNCHANGED <<devVars, cs, gsdVars, calpc, burstVars, calHist>>

CallRead == CallReadOn(Channels)

ReadReturn ==
  /\ op = "read" /\ pc = "xfer" /\ xpc = "ret"
  /\ ret' = U32(XferValue)
  /\ pc' = "done"
  /\ XferIdle
  /\ UNCHANGED <<devVars, cs, op, ch, num, splFreq, pred, raw, val, cmd, i, delay, t1,
                 data, gsdVars, calpc, burstVars, opHist, bXfer, measured,
                 calHist>>

(***************************************************************************)
(* readn(ch, data, num)                                                    *)
(***************************************************************************)
\* for (i = 0; i < num; i++): the loop test before iteration j
LoopNext(j, n, c, body, exit) ==
  IF j < n THEN pc' = body /\ XferCall(c) ELSE pc' = exit /\ XferIdle

CallReadn ==
  \E c \in Channels, n \in Nums :
    /\ Enter("readn", "xfer", c, n, 0, "none")
    /\ cmd' = createCmd(c)
    /\ LoopNext(0, n, createCmd(c), "xfer", "done")
    /\ UNCHANGED <<devVars, cs, gsdVars, calpc, burstVars, calHist>>

\* mutant: every sample is written to the first slot
StoreIndex_First(j) == 1

\* the array slot written by iteration j: data[j], slots counted from 1 here
StoreIndex(j) == j + 1

\* data[i] = static_cast<T>(transfer(cmd)); i++
ReadnStore ==
  /\ op = "readn" /\ pc = "xfer" /\ xpc = "ret"
  /\ data' = [data EXCEPT ![StoreIndex(i)] = XferValue]
  /\ i' = i + 1
  /\ cmd' = cmd
  /\ LoopNext(i + 1, num, cmd, "xfer", "done")
  /\ UNCHANGED <<devVars, cs, op, ch, num, splFreq, pred, raw, val, delay, t1, ret,
                 gsdVars, calpc, burstVars, opHist, bXfer, measured, calHist>>


(***************************************************************************)
(* readn_if(ch, data, num, p)                                              *)
(***************************************************************************)
ButLast(s) == SubSeq(s, 1, Len(s) - 1)

\* gating transfers with a false predicate recorded in the log l
GateCount(l) == Cardinality({k \in 1..Len(l) : l[k] = <<"G", 0>>})

\* history of one evaluation of the predicate on the sample just read: the
\* sample's "T" entry becomes a "G" entry holding the verdict; beyond
\* MaxGate false verdicts the entry is dropped and the log is marked inexact
GateLog(ok) ==
  IF ok
    THEN log' = Append(ButLast(log), <<"G", 1>>) /\ gateOver' = gateOver
    ELSE IF GateCount(log) < MaxGate
           THEN log' = Append(ButLast(log), <<"G", 0>>) /\ gateOver' = gateOver
           ELSE log' = ButLast(log) /\ gateOver' = TRUE

\* mutant: the negation is dropped, while (p(...))
GateExit_Negated(ok) == ~ok

\* mutant: the loop body runs once whatever the verdict
GateExit_Always(ok) == TRUE

\* while (!p(...)): the loop is left when the predicate's verdict is true
GateExit(ok) == ok

\* while (!p(transfer(cmd))) {}: one evaluation of the loop condition, then
\* either the next gating transfer or the collecting loop
GateStep(ok) ==
  /\ GateLog(ok)
  /\ IF GateExit(ok) THEN LoopNext(0, num, cmd, "xfer", "done")
                     ELSE pc' = "gate" /\ XferCall(cmd)

CallReadnIf ==
  \E c \in Channels, n \in Nums, q \in Preds :
    /\ Enter("readn_if", "gate", c, n, 0, q)
    /\ cmd' = createCmd(c)
    /\ XferCall(createCmd(c))
    /\ UNCHANGED <<devVars, cs, gsdVars, calpc, burstVars, calHist>>

ReadnIfGate ==
  /\ op = "readn_if" /\ pc = "gate" /\ xpc = "ret"
  /\ GateStep(Holds(pred, XferValue))
  /\ UNCHANGED <<devVars, cs, op, ch, num, splFreq, pred, raw, val, cmd, i, delay, t1,
                 data, ret, gsdVars, calpc, burstVars, csTouched, speed0,
                 bXfer, measured, calHist>>

ReadnIfStore ==
  /\ op = "readn_if" /\ pc = "xfer" /\ xpc = "ret"
  /\ data' = [data EXCEPT ![StoreIndex(i)] = XferValue]
  /\ i' = i + 1
  /\ LoopNext(i + 1, num, cmd, "xfer", "done")
  /\ UNCHANGED <<devVars, cs, op, ch, num, splFreq, pred, raw, val, cmd, delay, t1, ret,
                 gsdVars, calpc, burstVars, opHist, bXfer, measured, calHist>>

(***************************************************************************)
(* testSplSpeed(ch, num), testSplSpeed(ch) and calibrate(ch)               *)
(***************************************************************************)
\* a call of testSplSpeed(ch, n)
BurstCall(n) ==
  /\ bpc' = "t1" /\ bnum' = n /\ bi' = 0 /\ bt1' = Zero32 /\ bret' = Zero32
  /\ bt2' = Zero32

BurstIdle ==
  /\ bpc' = "idle" /\ bnum' = 0 /\ bi' = 0 /\ bt1' = Zero32 /\ bret' = Zero32
  /\ bt2' = Zero32

\* for (i = 0; i < num; i++) read(ch): the loop test before iteration j
BurstNext(j) ==
  IF j < bnum THEN bpc' = "xfer" /\ XferCall(createCmd(ch))
              ELSE bpc' = "t2" /\ XferIdle

\* uint32_t t1 = micros()
\* the clock reads a value of the set S
BurstT1At(S) ==
  /\ bpc = "t1"
  /\ \E t \in S : bt1' = t
  /\ BurstNext(0)
  /\ UNCHANGED <<devVars, cs, topVars, gsdVars, calpc, bnum, bi, bt2, bret,
                 opHist, bXfer, measured, calHist>>

BurstT1 == BurstT1At(ClockStarts)

\* read(ch), result discarded; i++
BurstRead ==
  /\ bpc = "xfer" /\ xpc = "ret"
  /\ bi' = bi + 1
  /\ BurstNext(bi + 1)
  /\ UNCHANGED <<devVars, cs, topVars, gsdVars, calpc, bnum, bt1, bt2, bret,
                 opHist, bXfer, measured, calHist>>

\* what a division by zero can leave in a uint32_t when it does not trap
DivZeroValues == {Zero32, <<65535, 65535>>}

\* mutant: the first reading is not subtracted, the result follows the clock
Average_Absolute(ta, tb, n) ==
  IF n = 0 THEN DivZeroValues
  ELSE {div_round(Mul32(tb, 1000), n)}

\* div_round((t2 - t1) * 1000, n): the values the statement can return
Average(ta, tb, n) ==
  IF n = 0 THEN DivZeroValues
  ELSE {div_round(Mul32(Sub32(tb, ta), 1000), n)}

\* uint32_t t2 = micros(); return div_round((t2 - t1) * 1000, num)
\* the clock has advanced by an interval of the set E since the first reading
BurstT2After(E) ==
  /\ bpc = "t2"
  /\ \E e \in E :
       /\ bt2' = Add32(bt1, U32(e))
       /\ \E v \in Average(bt1, bt2', bnum) :
            /\ bret' = v /\ measured' = v
  /\ bpc' = "ret"
  /\ UNCHANGED <<devVars, cs, topVars, gsdVars, calpc, bnum, bi, bt1,
                 xferVars, xferHist, opHist, bXfer, calHist>>

BurstT2 == BurstT2After(ElapsedUs)

\* the division by zero of testSplSpeed(ch, 0) traps: the program stops
BurstTrap ==
  /\ bpc = "t2" /\ bnum = 0
  /\ pc' = "trap"
  /\ bpc' = "trap"
  /\ UNCHANGED <<devVars, cs, op, ch, num, splFreq, pred, raw, val, cmd, i, delay, t1,
                 data, ret, gsdVars, calpc, bnum, bi, bt1, bt2, bret,
                 xferVars,
                 xferHist, opHist, bXfer, measured, calHist>>

CallTestSplSpeed ==
  \E c \in Channels, n \in Nums :
    /\ Enter("testSplSpeed", "burst", c, n, 0, "none")
    /\ cmd' = 0
    /\ BurstCall(n)
    /\ XferIdle
    /\ UNCHANGED <<devVars, cs, gsdVars, calpc, calHist>>

\* testSplSpeed(ch): return testSplSpeed(ch, 64)
CallTestSplSpeedDefault ==
  \E c \in Channels :
    /\ Enter("testSplSpeed", "burst", c, kDefaultSamples, 0, "none")
    /\ cmd' = 0
    /\ BurstCall(kDefaultSamples)
    /\ XferIdle
    /\ UNCHANGED <<devVars, cs, gsdVars, calpc, calHist>>

TestSplSpeedReturn ==
  /\ op = "testSplSpeed" /\ pc = "burst" /\ bpc = "ret"
  /\ ret' = bret
  /\ pc' = "done"
  /\ BurstIdle
  /\ UNCHANGED <<devVars, cs, op, ch, num, splFreq, pred, raw, val, cmd, i, delay, t1,
                 data, gsdVars, calpc, xferVars, xferHist, opHist, bXfer,
                 measured, calHist>>

\* mutant: calibrate keeps a baseline that is already set
CalibrateValue_KeepOld(old, v) == IF old = Zero32 THEN v ELSE old

\* the value calibrate leaves in mSplSpeed, given the old value and the
\* measurement
CalibrateValue(old, v) == v

CallCalibrate ==
  \E c \in Channels :
    /\ Enter("calibrate", "cal", c, 0, 0, "none")
    /\ cmd' = 0
    /\ calpc' = "burst"
    /\ BurstCall(kCalSamples)
    /\ XferIdle
    /\ lazyDone' = FALSE
    /\ UNCHANGED <<devVars, cs, gsdVars>>

\* mSplSpeed = testSplSpeed(ch, 256), and the return to the caller
CalibrateStore ==
  /\ calpc = "burst" /\ bpc = "ret"
  /\ mSplSpeed' = CalibrateValue(mSplSpeed, bret)
  /\ calpc' = "idle"
  /\ BurstIdle
  /\ log' = Append(log, <<"C", bXfer>>)
  /\ IF gpc = "cal"
       THEN gpc' = "calc" /\ pc' = pc /\ lazyDone' = TRUE
       ELSE gpc' = gpc /\ pc' = "done" /\ lazyDone' = lazyDone
  /\ UNCHANGED <<mVref, mCsPin, cs, op, ch, num, splFreq, pred, raw, val, cmd, i, delay,
                 t1, data, ret, splTime, xferVars, xferHist, gateOver,
                 csTouched, speed0, bXfer, measured>>

(***************************************************************************)
(* getSplDelay(ch, splFreq)                                                *)
(***************************************************************************)
\* a call of getSplDelay
GsdCall == gpc' = "start" /\ splTime' = 0

\* mutant: getSplDelay calibrates on every call
NeedsCalibrate_Always(speed) == TRUE

\* if (!mSplSpeed)
NeedsCalibrate(speed) == speed = Zero32

\* splTime = div_round(1000000000, splFreq); if (!mSplSpeed) calibrate(ch)
GetSplDelayEnter ==
  /\ gpc = "start"
  /\ splTime' = SplTime(splFreq)
  /\ IF NeedsCalibrate(mSplSpeed)
       THEN /\ gpc' = "cal" /\ calpc' = "burst"
            /\ BurstCall(kCalSamples)
       ELSE /\ gpc' = "calc" /\ calpc' = calpc
            /\ UNCHANGED burstVars
  /\ UNCHANGED <<devVars, cs, topVars, xferVars, xferHist, opHist, bXfer,
                 measured, calHist>>

\* return (delay < 0) ? 0 : delay, as seen by the caller
GsdReturn ==
  /\ gpc = "calc"
  /\ delay' = SplDelay(splTime, mSplSpeed)
  /\ log' = Append(log, <<"D", delay'>>)
  /\ gpc' = "idle" /\ splTime' = 0

\* getSplDelay(c, f) for a frequency f of the set F
CallGetSplDelayAt(F) ==
  \E c \in Channels, f \in F :
    /\ Enter("getSplDelay", "delay", c, 0, f, "none")
    /\ cmd' = 0
    /\ GsdCall
    /\ XferIdle
    /\ UNCHANGED <<devVars, cs, calpc, burstVars, calHist>>

CallGetSplDelay == CallGetSplDelayAt(Freqs)

GetSplDelayReturn ==
  /\ op = "getSplDelay" /\ pc = "delay"
  /\ GsdReturn
  /\ ret' = U32(delay')
  /\ pc' = "done"
  /\ UNCHANGED <<devVars, cs, op, ch, num, splFreq, pred, raw, val, cmd, i, t1, data,
                 calpc, burstVars, xferVars, xferHist, gateOver, csTouched,
                 speed0, bXfer, measured, calHist>>

(***************************************************************************)
(* readn(ch, data, num, splFreq)                                           *)
(***************************************************************************)
\* history of delayMicroseconds(d)
WaitLog(d) == log' = Append(log, <<"W", d>>)

CallReadnFreq ==
  \E c \in Channels, n \in Nums, f \in Freqs :
    /\ Enter("readn_freq", "delay", c, n, f, "none")
    /\ cmd' = createCmd(c)
    /\ GsdCall
    /\ XferIdle
    /\ UNCHANGED <<devVars, cs, calpc, burstVars, calHist>>

\* uint16_t delay = getSplDelay(ch, splFreq), then the first loop test
ReadnFreqDelay ==
  /\ op = "readn_freq" /\ pc = "delay"
  /\ GsdReturn
  /\ LoopNext(0, num, cmd, "xfer", "done")
  /\ UNCHANGED <<devVars, cs, op, ch, num, splFreq, pred, raw, val, cmd, i, t1, data,
                 ret, calpc, burstVars, gateOver, csTouched, speed0, bXfer,
                 measured, calHist>>

\* mutant: the wait after the sample is forgotten
ReadnFreqStore_NoWait ==
  /\ op = "readn_freq" /\ pc = "xfer" /\ xpc = "ret"
  /\ data' = [data EXCEPT ![StoreIndex(i)] = XferValue]
  /\ i' = i + 1
  /\ LoopNext(i + 1, num, cmd, "xfer", "done")
  /\ UNCHANGED <<devVars, cs, op, ch, num, splFreq, pred, raw, val, cmd, delay, t1, ret,
                 gsdVars, calpc, burstVars, opHist, bXfer, measured, calHist>>

\* data[i] = static_cast<T>(transfer(cmd))
ReadnFreqStore ==
  /\ op = "readn_freq" /\ pc = "xfer" /\ xpc = "ret"
  /\ data' = [data EXCEPT ![StoreIndex(i)] = XferValue]
  /\ pc' = "wait"
  /\ XferIdle
  /\ UNCHANGED <<devVars, cs, op, ch, num, splFreq, pred, raw, val, cmd, i, delay, t1,
                 ret, gsdVars, calpc, burstVars, opHist, bXfer, measured,
                 calHist>>

\* delayMicroseconds(delay); i++
ReadnFreqWait ==
  /\ op = "readn_freq" /\ pc = "wait"
  /\ WaitLog(delay)
  /\ i' = i + 1
  /\ LoopNext(i + 1, num, cmd, "xfer", "done")
  /\ UNCHANGED <<devVars, cs, op, ch, num, splFreq, pred, raw, val, cmd, delay, t1,
                 data, ret, gsdVars, calpc, burstVars, gateOver, csTouched,
                 speed0, bXfer, measured, calHist>>

(***************************************************************************)
(* readn_if(ch, data, num, splFreq, p)                                     *)
(***************************************************************************)
CallReadnIfFreq ==
  \E c \in Channels, n \in Nums, f \in Freqs, q \in Preds :
    /\ Enter("readn_if_freq", "delay", c, n, f, q)
    /\ cmd' = createCmd(c)
    /\ GsdCall
    /\ XferIdle
    /\ UNCHANGED <<devVars, cs, calpc, burstVars, calHist>>

\* uint16_t delay = getSplDelay(ch, splFreq), then the first gating transfer
ReadnIfFreqDelay ==
  /\ op = "readn_if_freq" /\ pc = "delay"
  /\ GsdReturn
  /\ pc' = "gate"
  /\ XferCall(cmd)
  /\ UNCHANGED <<devVars, cs, op, ch, num, splFreq, pred, raw, val, cmd, i, t1, data,
                 ret, calpc, burstVars, gateOver, csTouched, speed0, bXfer,
                 measured, calHist>>

ReadnIfFreqGate ==
  /\ op = "readn_if_freq" /\ pc = "gate" /\ xpc = "ret"
  /\ GateStep(Holds(pred, XferValue))
  /\ UNCHANGED <<devVars, cs, op, ch, num, splFreq, pred, raw, val, cmd, i, delay, t1,
                 data, ret, gsdVars, calpc, burstVars, csTouched, speed0,
                 bXfer, measured, calHist>>

\* mutant: the wait after a collected sample is forgotten
ReadnIfFreqStore_NoWait ==
  /\ op = "readn_if_freq" /\ pc = "xfer" /\ xpc = "ret"
  /\ data' = [data EXCEPT ![StoreIndex(i)] = XferValue]
  /\ i' = i + 1
  /\ LoopNext(i + 1, num, cmd, "xfer", "done")
  /\ UNCHANGED <<devVars, cs, op, ch, num, splFreq, pred, raw, val, cmd, delay, t1, ret,
                 gsdVars, calpc, burstVars, opHist, bXfer, measured, calHist>>

\* data[i] = static_cast<T>(transfer(cmd))
ReadnIfFreqStore ==
  /\ op = "readn_if_freq" /\ pc = "xfer" /\ xpc = "ret"
  /\ data' = [data EXCEPT ![StoreIndex(i)] = XferValue]
  /\ pc' = "wait"
  /\ XferIdle
  /\ UNCHANGED <<devVars, cs, op, ch, num, splFreq, pred, raw, val, cmd, i, delay, t1,
                 ret, gsdVars, calpc, burstVars, opHist, bXfer, measured,
                 calHist>>

ReadnIfFreqWait ==
  /\ op = "readn_if_freq" /\ pc = "wait"
  /\ WaitLog(delay)
  /\ i' = i + 1
  /\ LoopNext(i + 1, num, cmd, "xfer", "done")
  /\ UNCHANGED <<devVars, cs, op, ch, num, splFreq, pred, raw, val, cmd, delay, t1,
                 data, ret, gsdVars, calpc, burstVars, gateOver, csTouched,
                 speed0, bXfer, measured, calHist>>

(***************************************************************************)
(* testSplSpeed(ch, num, splFreq)                                          *)
(***************************************************************************)
CallTestSplSpeedFreq ==
  \E c \in Channels, n \in Nums, f \in Freqs :
    /\ Enter("testSplSpeed_freq", "delay", c, n, f, "none")
    /\ cmd' = 0
    /\ GsdCall
    /\ XferIdle
    /\ UNCHANGED <<devVars, cs, calpc, burstVars, calHist>>

\* uint16_t delay = getSplDelay(ch, splFreq)
TestFreqDelay ==
  /\ op = "testSplSpeed_freq" /\ pc = "delay"
  /\ GsdReturn
  /\ pc' = "t1"
  /\ UNCHANGED <<devVars, cs, op, ch, num, splFreq, pred, raw, val, cmd, i, t1, data,
                 ret, calpc, burstVars, xferVars, xferHist, gateOver,
                 csTouched, speed0, bXfer, measured, calHist>>

\* uint32_t t1 = micros(), then the first loop test
TestFreqT1 ==
  /\ op = "testSplSpeed_freq" /\ pc = "t1"
  /\ \E t \in ClockStarts : t1' = t
  /\ log' = Append(log, <<"K", 1>>)
  /\ LoopNext(0, num, createCmd(ch), "xfer", "t2")
  /\ UNCHANGED <<devVars, cs, op, ch, num, splFreq, pred, raw, val, cmd, i, delay, data,
                 ret, gsdVars, calpc, burstVars, gateOver, csTouched, speed0,
                 bXfer, measured, calHist>>

\* read(ch), result discarded
TestFreqRead ==
  /\ op = "testSplSpeed_freq" /\ pc = "xfer" /\ xpc = "ret"
  /\ pc' = "wait"
  /\ XferIdle
  /\ UNCHANGED <<devVars, cs, op, ch, num, splFreq, pred, raw, val, cmd, i, delay, t1,
                 data, ret, gsdVars, calpc, burstVars, opHist, bXfer,
                 measured, calHist>>

\* delayMicroseconds(delay); i++
TestFreqWait ==
  /\ op = "testSplSpeed_freq" /\ pc = "wait"
  /\ WaitLog(delay)
  /\ i' = i + 1
  /\ LoopNext(i + 1, num, createCmd(ch), "xfer", "t2")
  /\ UNCHANGED <<devVars, cs, op, ch, num, splFreq, pred, raw, val, cmd, delay, t1,
                 data, ret, gsdVars, calpc, burstVars, gateOver, csTouched,
                 speed0, bXfer, measured, calHist>>

\* uint32_t t2 = micros(); return div_round((t2 - t1) * 1000, num)
TestFreqT2 ==
  /\ op = "testSplSpeed_freq" /\ pc = "t2"
  /\ \E e \in ElapsedUs :
       \E v \in Average(t1, Add32(t1, U32(e)), num) :
         /\ ret' = v /\ measured' = v
  /\ log' = Append(log, <<"K", 2>>)
  /\ pc' = "done"
  /\ UNCHANGED <<devVars, cs, op, ch, num, splFreq, pred, raw, val, cmd, i, delay, t1,
                 data, gsdVars, calpc, burstVars, xferVars, xferHist,
                 gateOver, csTouched, speed0, bXfer, calHist>>

\* the division by zero of testSplSpeed(ch, 0, splFreq) traps
TestFreqTrap ==
  /\ op = "testSplSpeed_freq" /\ pc = "t2" /\ num = 0
  /\ pc' = "trap"
  /\ UNCHANGED <<devVars, cs, op, ch, num, splFreq, pred, raw, val, cmd, i, delay, t1,
                 data, ret, gsdVars, calpc, burstVars, xferVars, xferHist,
                 opHist, bXfer, measured, calHist>>

(***************************************************************************)
(* toAnalog(raw), toDigital(val), getVref() and getAnalogRes()             *)
(***************************************************************************)
\* a call of a method that only computes: o with the arguments r and v
ConvCall(o, r, v) ==
  /\ op = "idle"
  /\ op' = o /\ pc' = "calc" /\ raw' = r /\ val' = v
  /\ UNCHANGED <<devVars, cs, ch, num, splFreq, pred, cmd, i, delay, t1, data,
                 ret, gsdVars, calpc, burstVars, xferVars, xferHist, opHist,
                 bXfer, measured, calHist>>

\* the return statement of the method o, with the value x
ConvReturn(o, x) ==
  /\ op = o /\ pc = "calc"
  /\ ret' = U32(x)
  /\ pc' = "done"
  /\ UNCHANGED <<devVars, cs, op, ch, num, splFreq, pred, raw, val, cmd, i,
                 delay, t1, data, gsdVars, calpc, burstVars, xferVars,
                 xferHist, opHist, bXfer, measured, calHist>>

CallToAnalogOf(R) == op = "idle" /\ \E r \in R : ConvCall("toAnalog", r, 0)

CallToAnalog == CallToAnalogOf(RawSamples)

ToAnalogReturn == ConvReturn("toAnalog", toAnalog(raw, mVref))

CallToDigitalOf(V) == op = "idle" /\ \E v \in V : ConvCall("toDigital", 0, v)

CallToDigital == CallToDigitalOf(ValSamples)

\* toDigital(toAnalog(raw)): the caller passes the value it has just got
\* from toAnalog
CallToDigitalOfAnalog ==
  /\ op = "toAnalog" /\ pc = "done"
  /\ op' = "toDigital" /\ pc' = "calc" /\ val' = Val32(ret)
  /\ ret' = Zero32
  /\ UNCHANGED <<devVars, cs, ch, num, splFreq, pred, raw, cmd, i, delay, t1,
                 data, gsdVars, calpc, burstVars, xferVars, xferHist, opHist,
                 bXfer, measured, calHist>>

ToDigitalReturn == ConvReturn("toDigital", toDigital(val, mVref))

CallGetVref == ConvCall("getVref", 0, 0)

GetVrefReturn == ConvReturn("getVref", mVref)

CallGetAnalogRes == ConvCall("getAnalogRes", 0, 0)

GetAnalogResReturn == ConvReturn("getAnalogRes", getAnalogRes(mVref))

(***************************************************************************)
(* The driver.                                                             *)
(***************************************************************************)
Call ==
  \/ CallRead \/ CallReadn \/ CallReadnIf \/ CallReadnFreq \/ CallReadnIfFreq
  \/ CallTestSplSpeed \/ CallTestSplSpeedDefault \/ CallTestSplSpeedFreq
  \/ CallCalibrate \/ CallGetSplDelay
  \/ CallToAnalog \/ CallToDigital \/ CallGetVref \/ CallGetAnalogRes

Transfer ==
  \/ XferCsLow \/ XferByte1 \/ XferByte2 \/ XferByte3 \/ XferCsHigh

Step ==
  \/ Transfer
  \/ ReadReturn \/ ReadnStore \/ ReadnIfGate \/ ReadnIfStore
  \/ BurstT1 \/ BurstRead \/ BurstT2 \/ BurstTrap \/ TestSplSpeedReturn
  \/ CalibrateStore \/ GetSplDelayEnter \/ GetSplDelayReturn
  \/ ReadnFreqDelay \/ ReadnFreqStore \/ ReadnFreqWait
  \/ ReadnIfFreqDelay \/ ReadnIfFreqGate \/ ReadnIfFreqStore
  \/ ReadnIfFreqWait
  \/ TestFreqDelay \/ TestFreqT1 \/ TestFreqRead \/ TestFreqWait
  \/ TestFreqT2 \/ TestFreqTrap
  \/ ToAnalogReturn \/ ToDigitalReturn \/ GetVrefReturn \/ GetAnalogResReturn

Next == Call \/ Step \/ Return

Spec == Init /\ [][Next]_vars

\* The driver is one sequential, blocking program: while a method is in
\* progress its next statement is eventually executed (a bus exchange, a
\* line write, a clock reading and a wait all return).
FairSpec == Spec /\ WF_vars(Step)

(***************************************************************************)
(* The conversions alone, for every raw code and a device constructed with *)
(* any of the reference voltages.                                          *)
(***************************************************************************)
ConvInit == \E v \in Vrefs : Constructed(v, Zero32)

ConvNext ==
  \/ CallToAnalogOf(Raws) \/ ToAnalogReturn
  \/ CallToDigitalOf(ValSamples) \/ CallToDigitalOfAnalog \/ ToDigitalReturn
  \/ CallGetVref \/ GetVrefReturn
  \/ CallGetAnalogRes \/ GetAnalogResReturn
  \/ Return

ConvSpec == ConvInit /\ [][ConvNext]_vars

(***************************************************************************)
(* getSplDelay alone, on a device that calibrate has left with one of the  *)
(* baselines 1000, 10000, 50000 and 3000000 ns.                            *)
(***************************************************************************)
\* intervals in microseconds that a calibration burst has taken
CalElapsedUs == {256, 2560, 12800, 768000}

Baselines ==
  {div_round(Mul32(U32(e), 1000), kCalSamples) : e \in CalElapsedUs}

DelayInit == \E b \in Baselines : Constructed(5000, b)

DelayNext ==
  \/ CallGetSplDelayAt(WideFreqs) \/ GetSplDelayEnter \/ GetSplDelayReturn
  \/ Return

DelaySpec == DelayInit /\ [][DelayNext]_vars

(***************************************************************************)
(* The second clock reading and the division of testSplSpeed(ch, num)      *)
(* alone, for sample counts up to 30000, a clock that started at 0 or just *)
(* before it wraps, and intervals up to 4294967 us.                        *)
(***************************************************************************)
MeasureNums == {1, 3, 256, 2000, 30000}
WideClockStarts == {Zero32, <<65535, 65000>>}
WideElapsedUs == {0, 2, 1000, 2560, 768000, 4294967}

\* testSplSpeed(c, n) on a new device after its sampling loop: the first
\* reading was t and n transfers have been made since
AtSecondReading(c, n, t) ==
  /\ mVref = 5000 /\ mCsPin = 10 /\ mSplSpeed = Zero32
  /\ cs = "HIGH"
  /\ op = "testSplSpeed" /\ pc = "burst" /\ ch = c /\ num = n /\ splFreq = 0
  /\ pred = "none" /\ raw = 0 /\ val = 0
  /\ cmd = 0 /\ i = 0 /\ delay = 0 /\ t1 = Zero32
  /\ data = [k \in 1..(n + 1) |-> Unset] /\ ret = Zero32
  /\ gpc = "idle" /\ splTime = 0
  /\ calpc = "idle"
  /\ bpc = "t2" /\ bnum = n /\ bi = n /\ bt1 = t /\ bret = Zero32
  /\ bt2 = Zero32
  /\ xpc = "idle" /\ xcmd = 0 /\ adcHi = Unset /\ adcLo = Unset
  /\ tlog = <<>> /\ resp = <<>>
  /\ log = <<>> /\ gateOver = FALSE /\ csTouched = TRUE /\ speed0 = Zero32
  /\ bXfer = n /\ measured = Zero32
  /\ lazyDone = FALSE

MeasureInit ==
  \E c \in Channels, n \in MeasureNums, t \in WideClockStarts :
    AtSecondReading(c, n, t)

MeasureNext ==
  BurstT2After(WideElapsedUs) \/ TestSplSpeedReturn \/ Return

MeasureSpec == MeasureInit /\ [][MeasureNext]_vars

(***************************************************************************)
(* Single reads, for every channel selector.                               *)
(***************************************************************************)
CmdNext == CallReadOn(AllChannels) \/ Transfer \/ ReadReturn \/ Return

CmdSpec == Init /\ [][CmdNext]_vars

(***************************************************************************)
(* Properties.                                                             *)
(***************************************************************************)
\* entries of kind k in the log l
Count(l, k) == Cardinality({j \in 1..Len(l) : l[j][1] = k})

\* the log l starts with the record of a lazy calibration burst
Lead(l) == IF Len(l) > 0 /\ l[1][1] = "C" THEN 1 ELSE 0

GatedOps == {"readn_if", "readn_if_freq"}
RateOps == {"readn_freq", "readn_if_freq", "testSplSpeed_freq", "getSplDelay"}

\* The events of a transfer so far are a prefix of: select low, the
\* command's high byte (0x04 | ch >> 2), its low byte ((ch & 3) << 6), a
\* dummy 0x00, select high; the line is low from the first to the last of
\* the three exchanges and high again when the transfer returns.
C1_Shape ==
  LET full == << <<"cs", 0>>, <<"x", 4 + (ch \div 4)>>,
                 <<"x", (ch % 4) * 64>>, <<"x", 0>>, <<"cs", 1>> >>
      n == CASE xpc = "b1" -> 1 [] xpc = "b2" -> 2 [] xpc = "b3" -> 3
             [] xpc = "csHigh" -> 4 [] xpc = "ret" -> 5 [] OTHER -> 0
  IN  /\ tlog = SubSeq(full, 1, n)
      /\ xpc \in {"b1", "b2", "b3", "csHigh"} => cs = "LOW"
      /\ xpc = "ret" => cs = "HIGH"

\* While a transfer is in flight every step of the driver is a step of that
\* transfer: it adds one event and changes nothing outside the transfer.
C1_InFlight ==
  xpc \in {"csLow", "b1", "b2", "b3", "csHigh"} =>
    (Len(tlog') = Len(tlog) + 1
       /\ UNCHANGED <<devVars, topVars, gsdVars, calpc, burstVars>>)

\* C1: every transfer drives the select line low, exchanges the command's
\* high byte, its low byte and a dummy 0x00, and drives the line high, in
\* this order and with nothing else in between.
C1_TransferProtocol == []C1_Shape /\ [][C1_InFlight]_vars

C1_Witness ==
  /\ op = "readn" /\ ch = 13 /\ xpc = "ret"
  /\ tlog = << <<"cs", 0>>, <<"x", 7>>, <<"x", 64>>, <<"x", 0>>, <<"cs", 1>> >>

\* C2: the value a transfer returns is ((r2 & 0x0F) << 8) | r3 for the
\* responses r1, r2, r3 of its three exchanges, whatever r1 and the upper
\* four bits of r2 are, and lies in 0..4095.
C2_TransferResult ==
  (xpc = "ret" /\ ~InBurst) =>
    /\ Len(resp) = 3
    /\ XferValue = (resp[2] % 16) * 256 + resp[3]
    /\ XferValue \in 0..4095
    /\ log[Len(log)] = <<"T", XferValue>>

C2_Witness ==
  xpc = "ret" /\ resp = <<255, 250, 60>> /\ XferValue = 2620

\* C3 (as claimed): once the delay is computed from a nonzero baseline, it
\* is 0 whenever the desired period is at most the baseline, and it is never
\* negative.
C3_ZeroDelayWhenUnreachable ==
  (op \in RateOps /\ Count(log, "D") > 0 /\ mSplSpeed # Zero32) =>
    /\ delay >= 0
    /\ SplTime(splFreq) <= Val32(mSplSpeed) => delay = 0

\* C4 (as claimed): getSplDelay starts no calibration burst once a burst it
\* started earlier has completed.
C4_CalibratesOnce == ~(lazyDone /\ gpc = "cal")

\* C5: readn_if discards every sample up to and including the first one
\* that satisfies the predicate (k transfers, k evaluations of the
\* predicate), then makes exactly num transfers more and stores their
\* results in order; nothing is stored while gating and nothing behind the
\* num slots.
C5_ReadUntil ==
  /\ (op = "readn_if" /\ pc = "gate") => \A j \in DOMAIN data : data[j] = Unset
  /\ (op = "readn_if" /\ pc = "done" /\ ~gateOver) =>
       LET k == GateCount(log) + 1
       IN  /\ Len(log) = k + num
           /\ \A j \in 1..(k - 1) : log[j] = <<"G", 0>>
           /\ log[k] = <<"G", 1>>
           /\ \A j \in 1..num : log[k + j] = <<"T", data[j]>>
           /\ data[num + 1] = Unset
           /\ i = num

C5_Witness ==
  /\ op = "readn_if" /\ pc = "done" /\ pred = "eq42" /\ num = 2
  /\ GateCount(log) = 3 /\ Len(log) = 6
  /\ data[1] = 60 /\ data[2] = 60

C7_ReadManyAtRate ==
  /\ op = "readn_freq" => Count(log, "D") <= 1
  /\ (op = "readn_freq" /\ pc = "done") =>
       LET c == Lead(log)
       IN  /\ Len(log) = c + 1 + 2 * num
           /\ log[c + 1] = <<"D", delay>>
           /\ \A j \in 1..num : /\ log[c + 2 * j] = <<"T", data[j]>>
                                /\ log[c + 2 * j + 1] = <<"W", delay>>
           /\ data[num + 1] = Unset

C7_Witness ==
  /\ op = "readn_freq" /\ pc = "done" /\ num = 2 /\ delay = 990
  /\ Count(log, "W") = 2 /\ log[Len(log)] = <<"W", 990>>

\* C8: readn_if with a frequency computes the delay once, after any lazy
\* calibration burst and before its first gating transfer; the gating loop
\* waits nowhere; after the first satisfying sample exactly num samples are
\* collected, each followed by one wait of the computed delay.
C8_ReadUntilAtRate ==
  /\ (op = "readn_if_freq" /\ pc = "gate") =>
       /\ Count(log, "W") = 0
       /\ log[Lead(log) + 1] = <<"D", delay>>
       /\ \A j \in DOMAIN data : data[j] = Unset
  /\ (op = "readn_if_freq" /\ pc = "done" /\ ~gateOver) =>
       LET c == Lead(log)
           k == GateCount(log) + 1
       IN  /\ Len(log) = c + 1 + k + 2 * num
           /\ log[c + 1] = <<"D", delay>>
           /\ \A j \in 1..(k - 1) : log[c + 1 + j] = <<"G", 0>>
           /\ log[c + 1 + k] = <<"G", 1>>
           /\ \A j \in 1..num :
                /\ log[c + k + 2 * j] = <<"T", data[j]>>
                /\ log[c + k + 2 * j + 1] = <<"W", delay>>
           /\ data[num + 1] = Unset

C8_Witness ==
  /\ op = "readn_if_freq" /\ pc = "done" /\ num = 2 /\ delay = 990
  /\ log[1] = <<"C", 256>> /\ GateCount(log) = 2 /\ Count(log, "W") = 2

\* The gating loop of readn_if is left only at a sample on which the
\* predicate returns true.
C9_GateLeft ==
  (pc = "gate" /\ pc' # "gate") => (xpc = "ret" /\ Holds(pred, XferValue))

\* A false verdict is followed by the next gating transfer and stores
\* nothing; a true verdict by the collecting loop or, for num = 0, the return.
C9_GateVerdict ==
  (pc = "gate" /\ xpc = "ret" /\ xpc' # "ret") =>
    IF Holds(pred, XferValue) THEN pc' \in {"xfer", "done"}
    ELSE pc' = "gate" /\ xpc' = "csLow" /\ data' = data

\* The collecting loop never falls back into gating.
C9_NoWayBack == pc \in {"xfer", "wait", "done"} => pc' # "gate"

\* C9: every method in progress eventually ends (by its return, or by the
\* trap of the division by zero of a measurement of 0 samples) or completes
\* one more gating transfer.  With the three step properties above: a method
\* outside the gating loop always ends, a gated read ends after exactly num
\* transfers past the first true verdict, and a gating loop whose predicate
\* is false on every sample transfers forever.
C9_Termination ==
  /\ [][C9_GateLeft]_vars
  /\ [][C9_GateVerdict]_vars
  /\ [][C9_NoWayBack]_vars
  /\ []((op \in GatedOps /\ pc = "done") => Count(log, "T") = num)
  /\ []((op \notin GatedOps) => pc # "gate")
  /\ (op # "idle") ~> (pc \in {"done", "trap"} \/ (pc = "gate" /\ xpc = "ret"))

C9_Witness ==
  /\ op = "readn_if" /\ pred = "never" /\ pc = "gate" /\ gateOver
  /\ \A j \in DOMAIN data : data[j] = Unset

\* C10: calibrate makes exactly 256 transfers back to back, with no wait and
\* nothing else between its two clock readings, and then stores the
\* measured value as the baseline, whatever the baseline was before.
C10_Calibrate ==
  /\ \A j \in 1..Len(log) : log[j][1] = "C" => log[j][2] = 256
  /\ (op = "calibrate" /\ pc = "done") =>
       /\ log = << <<"C", 256>> >>
       /\ mSplSpeed = measured
  /\ (gpc = "calc" /\ Count(log, "C") > 0) => mSplSpeed = measured

C10_Witness ==
  /\ op = "calibrate" /\ pc = "done"
  /\ speed0 = U32(10000) /\ mSplSpeed = U32(3000000)

\* C11: for a reference voltage of at least 4095, toDigital applied to the
\* result of toAnalog(raw) returns raw - 1, raw or raw + 1 for every raw code
\* 0..4095; the two products stay below 2^31 (so inside uint32_t) and the two
\* quotients inside uint16_t, so the casts lose nothing.
C11_RoundTrip ==
  (mVref >= kRes - 1 /\ op \in {"toAnalog", "toDigital"}
     /\ val = (IF op = "toAnalog" THEN 0 ELSE toAnalog(raw, mVref))) =>
    /\ raw * mVref < 2147483647
    /\ (raw * mVref) \div (kRes - 1) <= 65535
    /\ val * (kRes - 1) < 2147483647
    /\ (val * (kRes - 1)) \div mVref <= 65535
    /\ (op = "toAnalog" /\ pc = "done") =>
         Val32(ret) = (raw * mVref) \div (kRes - 1)
    /\ (op = "toDigital" /\ pc = "done") =>
         Val32(ret) \in {raw - 1, raw, raw + 1}

C11_Witness ==
  /\ op = "toDigital" /\ pc = "done" /\ mVref = 5000
  /\ raw = 3 /\ val = 3 /\ ret = U32(2)

\* C12 (as claimed): toAnalog(raw) is raw * vref / 4095 rounded to the nearest
\* integer, toAnalog(0) is 0 and toAnalog(4095) is vref.
C12_NearestAnalog ==
  (op = "toAnalog" /\ pc = "done") =>
    /\ 2 * Val32(ret) * (kRes - 1) - 2 * raw * mVref
         \in (0 - (kRes - 1))..(kRes - 1)
    /\ raw = 0 => Val32(ret) = 0
    /\ raw = kRes - 1 => Val32(ret) = mVref

\* The baseline a calibrate call stores is determined by the interval between
\* the two clock readings of its burst alone: not by the readings themselves,
\* the samples, the channel or the baseline before the call.
C13_Store ==
  (op = "calibrate" /\ calpc = "burst" /\ calpc' = "idle") =>
    mSplSpeed' = div_round(Mul32(Sub32(bt2, bt1), 1000), kCalSamples)

\* C13: calibrate is idempotent under a deterministic clock: every call
\* leaves the baseline that belongs to the elapsed interval of its burst, so
\* calls whose bursts see the same interval leave the same baseline,
\* whatever it was before.
C13_Idempotent == [][C13_Store]_vars

C13_Witness ==
  /\ op = "calibrate" /\ pc = "done"
  /\ speed0 = U32(10000) /\ measured = U32(10000) /\ mSplSpeed = U32(10000)

\* C14: for every selector 0..15 the command word is 0x0400 | (ch << 6): the
\* selector in bits 6..9, bit 10 set, every other bit zero; the first byte a
\* transfer sends is 0x04 | (ch >> 2) and the second (ch & 3) << 6.
C14_CommandWord ==
  op = "read" =>
    /\ cmd = 1024 + 64 * ch
    /\ cmd \div 1024 = 1 /\ (cmd \div 64) % 16 = ch /\ cmd % 64 = 0
    /\ HiByte(cmd) = 4 + (ch \div 4) /\ LoByte(cmd) = (ch % 4) * 64
    /\ Len(tlog) >= 2 => tlog[2] = <<"x", 4 + (ch \div 4)>>
    /\ Len(tlog) >= 3 => tlog[3] = <<"x", (ch % 4) * 64>>

C14_Witness ==
  /\ op = "read" /\ ch = 15 /\ cmd = 1984 /\ xpc = "ret"
  /\ tlog[2] = <<"x", 7>> /\ tlog[3] = <<"x", 192>>

\* C15 (as claimed): when the desired period is at least the baseline,
\* getSplDelay returns (period - baseline) / 1000 microseconds, however large
\* that quotient is.
C15_ExactDelay ==
  (op = "getSplDelay" /\ pc = "done"
     /\ SplTime(splFreq) >= Val32(mSplSpeed)) =>
    delay = (SplTime(splFreq) - Val32(mSplSpeed)) \div 1000

\* C17 (as claimed): the desired period getSplDelay works with is
\* 1000000000 / splFreq rounded to the nearest integer, so it differs from
\* the exact quotient by at most one half.
C17_NearestPeriod ==
  (op = "getSplDelay" /\ gpc = "calc") =>
    2 * (splTime * splFreq - 1000000000) \in (0 - splFreq)..splFreq

\* C16 (as claimed): for a sample count of at least 1, testSplSpeed returns
\* the elapsed nanoseconds divided by the sample count and rounded to the
\* nearest integer, at most one half from the exact quotient; stated here
\* for intervals below 2^20 us only.
C16_NearestAverage ==
  (op = "testSplSpeed" /\ bpc = "ret" /\ bnum >= 1
     /\ Sub32(bt2, bt1)[1] < 16) =>
    2 * (Val32(bret) * bnum - Val32(Sub32(bt2, bt1)) * 1000)
      \in (0 - bnum)..bnum

\* C20 (as claimed): for an elapsed interval (t2 - t1) mod 2^32 of at most
\* 4294967 us, whether or not the counter wrapped between the readings,
\* testSplSpeed returns a value within 1 of elapsed * 1000 / num.
C20_WithinOne ==
  LET el == Sub32(bt2, bt1)
      q  == Div32(Mul32(el, 1000), bnum)
  IN  (op = "testSplSpeed" /\ bpc = "ret" /\ bnum >= 1
         /\ (el[1] < 65 \/ (el[1] = 65 /\ el[2] <= 35127))) =>
        (bret = q \/ bret = Add32(q, U32(1)) \/ Add32(bret, U32(1)) = q)

\* a step leaves mVref and mCsPin alone, and changes mSplSpeed only as the
\* store of calibrate, called directly or by getSplDelay on a zero baseline
C18_Step ==
  /\ mVref' = mVref
  /\ mCsPin' = mCsPin
  /\ mSplSpeed' # mSplSpeed =>
       /\ calpc = "burst" /\ bpc = "ret"
       /\ \/ op = "calibrate"
          \/ op \in RateOps /\ gpc = "cal" /\ mSplSpeed = Zero32

\* C18: the baseline is the only device state that changes and only
\* calibration changes it: read, readn, readn_if, testSplSpeed(ch, num),
\* toAnalog, toDigital and getAnalogRes leave baseline, vref and select-line
\* identifier as they were; a rate-aware operation changes the baseline only
\* by the lazy calibrate call on a zero baseline, never a nonzero one.
C18_Frame == [][C18_Step]_vars

\* a rate-limited readn has returned on a device whose nonzero baseline it
\* found and left
C18_Witness ==
  /\ op = "readn_freq" /\ pc = "done" /\ num > 0
  /\ speed0 # Zero32 /\ mSplSpeed = speed0

\* an exchange with the bus is the next step of the transfer in progress
Exchanging == xpc \in {"b1", "b2", "b3"}

\* no transfer is in progress: none was called, or the one called has not
\* yet written the line, or it has written it for the last time
OutsideTransfer == xpc \in {"idle", "csLow", "ret"}

\* the driver is about to call micros()
ReadingClock == pc = "t1" \/ pc = "t2" \/ bpc = "t1" \/ bpc = "t2"

\* the driver is about to call delayMicroseconds(delay)
Waiting == pc = "wait"

\* the driver is about to call the predicate on the value just transferred
EvaluatingPredicate == op \in GatedOps /\ pc = "gate" /\ xpc = "ret"

\* the operation has returned after at least one transfer
ReturnedAfterTransfer == pc = "done" /\ csTouched

\* a transfer that is not the first of its operation starts with the line
\* high and so begins with a high-to-low edge
C19_Toggle == (xpc = "csLow" /\ csTouched) => cs = "HIGH"

\* outside a transfer a line that is high stays high
C19_StaysHigh ==
  (OutsideTransfer /\ OutsideTransfer' /\ cs = "HIGH") => cs' = "HIGH"

\* C19 (as claimed): over any sequence of operations an exchange happens
\* only while the select line is low, the line is high whenever the driver
\* waits an inter-sample delay, reads the clock, evaluates a predicate or has
\* returned from an operation that made a transfer, and consecutive samples
\* are separated by a high/low toggle.
C19_LineInvariant ==
  /\ Exchanging => cs = "LOW"
  /\ (Waiting \/ ReadingClock \/ EvaluatingPredicate \/ ReturnedAfterTransfer)
       => cs = "HIGH"
  /\ C19_Toggle

\* C19 (amended): an exchange happens only while the select line is low;
\* every transfer returns with the line high, and outside a transfer a line
\* that is high stays high, so from the return of the device's first
\* transfer on the line is high whenever no transfer is in progress; the line
\* is high whenever the driver waits an inter-sample delay, evaluates a
\* predicate or has returned from an operation that made a transfer, and
\* whenever it reads the clock after a transfer of the same operation; every
\* transfer but the first of its operation starts with the line high.  A
\* clock reading before the device's first transfer finds the line at the
\* level it had at construction.
C19_LineAfterTransfer ==
  /\ [](Exchanging => cs = "LOW")
  /\ [](xpc = "ret" => cs = "HIGH")
  /\ [][C19_StaysHigh]_vars
  /\ []((Waiting \/ EvaluatingPredicate \/ ReturnedAfterTransfer)
          => cs = "HIGH")
  /\ []((ReadingClock /\ csTouched) => cs = "HIGH")
  /\ []C19_Toggle

\* testSplSpeed(ch, 2) reads the clock for the second time, after its two
\* transfers, with the line high
C19_Witness ==
  /\ op = "testSplSpeed" /\ bpc = "t2" /\ bnum = 2 /\ bXfer = 2
  /\ cs = "HIGH" /\ csTouched

====
